---- MODULE Spec2Model ----
(***************************************************************************)
(* Model of photo_date_updater.py and inspect_metadata.py.                 *)
(*                                                                         *)
(* Strings are sequences of one-character strings, so that suffix          *)
(* extraction, lower-casing, date parsing and date formatting are computed *)
(* character by character, as pathlib / str.lower / strptime / strftime do.*)
(***************************************************************************)
EXTENDS Integers, Sequences, FiniteSets, TLC

VARIABLES
    \* --- format filter (is_supported_format of both tools) ---
    ft_in,          \* how the path under test was built: [dir, stem, base, ext]
    ft_path,        \* the path handed to the filters
    ft_result,      \* [called, updater, inspector]: the two filters' answers
    \* --- metadata reader (get_exif_date) ---
    rd_path,        \* the file handed to the reader
    rd_lib,         \* what exifread.process_file does on it: [raises, tags]
    rd_result,      \* [kind, dt]: "pending", then what get_exif_date did
    \* --- process_directory and main ---
    pc,             \* "main", "process_directory", "loop" (line 160), "file" (line 166),
                    \* "returned", "exited", "crashed"
    platform,       \* sys.platform
    probe,          \* what became of main's SetFile -h
    dry_run,        \* the dry_run argument / --dry-run
    dir_kind,       \* the directory path is "missing", a "file" or a "dir"
    listing,        \* what directory.rglob('*') yields, in order
    image_files,    \* the list built by lines 145-148
    next_file,      \* index in image_files of the current loop iteration
    exif_date,      \* what get_exif_date returned in the current iteration
    updated_count,
    skipped_count,
    error_count,
    trace,          \* the calls made so far, in order
    log,            \* the messages logged so far, in order
    tally,          \* the summary logged by lines 182-185
    exit_status,    \* the status given to sys.exit, 0 while there was none
    \* --- inspect_metadata.py: inspect_file_metadata ---
    im_lib,         \* what exifread.process_file does on the file: [raises, tags]
    im_result,      \* "pending", then what inspect_file_metadata returned
    \* --- inspect_metadata.py: inspect_directory ---
    in_pc,          \* "idle", "inspect_directory", "loop" (line 159), "returned"
    recursive,      \* the recursive argument / --recursive
    files,          \* the list built by lines 146-149
    supported_files,\* the list built by line 151
    in_next,        \* index in supported_files of the current loop iteration
    printed,        \* what print_metadata_summary was given and printed, in order
    in_log          \* the messages inspect_directory logged, in order

readerVars == <<rd_path, rd_lib, rd_result>>

filterVars == <<ft_in, ft_path, ft_result>>

walkVars ==
    <<pc, platform, probe, dry_run, dir_kind, listing, image_files, next_file,
      exif_date, updated_count, skipped_count, error_count, trace, log, tally,
      exit_status>>

inspectFileVars == <<im_lib, im_result>>

inspectVars ==
    <<in_pc, recursive, files, supported_files, in_next, printed, in_log>>

vars == <<filterVars, readerVars, walkVars, inspectFileVars, inspectVars>>

(***************************************************************************)
(* Characters and strings                                                  *)
(***************************************************************************)
UpperLetters ==
    <<"A","B","C","D","E","F","G","H","I","J","K","L","M",
      "N","O","P","Q","R","S","T","U","V","W","X","Y","Z">>

LowerLetters ==
    <<"a","b","c","d","e","f","g","h","i","j","k","l","m",
      "n","o","p","q","r","s","t","u","v","w","x","y","z">>

LetterIndex(tbl, c) == CHOOSE i \in DOMAIN tbl : tbl[i] = c

IsUpper(c) == \E i \in DOMAIN UpperLetters : UpperLetters[i] = c
IsLower(c) == \E i \in DOMAIN LowerLetters : LowerLetters[i] = c

\* str.lower() on one character
LowerChar(c) == IF IsUpper(c) THEN LowerLetters[LetterIndex(UpperLetters, c)] ELSE c
\* str.upper() on one character
UpperChar(c) == IF IsLower(c) THEN UpperLetters[LetterIndex(LowerLetters, c)] ELSE c

\* str.lower()
StrLower(s) == [i \in DOMAIN s |-> LowerChar(s[i])]

\* str.rfind(ch): the last index of ch in s, 0 when absent (1-based; Python: -1)
RFind(s, ch) ==
    IF \E i \in DOMAIN s : s[i] = ch
    THEN CHOOSE i \in DOMAIN s : s[i] = ch /\ \A j \in DOMAIN s : s[j] = ch => j <= i
    ELSE 0

(***************************************************************************)
(* datetime: strptime and strftime                                         *)
(***************************************************************************)
Digits == <<"0","1","2","3","4","5","6","7","8","9">>

IsDigit(c) == \E i \in DOMAIN Digits : Digits[i] = c

DigitVal(c) == (CHOOSE i \in DOMAIN Digits : Digits[i] = c) - 1

DigitChar(n) == Digits[n + 1]

\* int() of a run of at most four digits (no directive used takes more)
ToInt(s) ==
    LET n    == Len(s)
        D(k) == IF k < n THEN DigitVal(s[n - k]) ELSE 0
    IN  D(0) + 10 * D(1) + 100 * D(2) + 1000 * D(3)

\* the index of the last digit of the run of digits that starts at i
\* (i - 1 when s[i] is no digit)
RunEnd(s, i) ==
    CHOOSE j \in (i - 1)..Len(s) :
        /\ \A k \in i..j : IsDigit(s[k])
        /\ j = Len(s) \/ ~IsDigit(s[j + 1])

\* a literal character of the format at i
Lit(s, i, c) == i <= Len(s) /\ s[i] = c

\* the index after the run of blanks that starts at i (i when there is none)
BlanksEnd(s, i) ==
    CHOOSE j \in i..(Len(s) + 1) :
        /\ \A k \in i..(j - 1) : s[k] = " "
        /\ j = Len(s) + 1 \/ s[j] # " "

\* the state of a parse: still matching, the next index to read, the values
\* of the directives read so far
ParseStart == [ok |-> TRUE, pos |-> 1, fields |-> << >>]

ParseFail(st) == [ok |-> FALSE, pos |-> st.pos, fields |-> st.fields]

\* the digits s[i..e] read as one directive of minLen..maxLen digits. Every
\* directive of the formats used is followed by a non-digit literal or by the
\* end of the string, so a directive has to take the whole run of digits.
TakeRun(st, s, i, e, minLen, maxLen) ==
    IF (e - i + 1) \in minLen..maxLen
    THEN [ok |-> TRUE, pos |-> e + 1, fields |-> Append(st.fields, ToInt(SubSeq(s, i, e)))]
    ELSE ParseFail(st)

TakeNum(st, s, i, minLen, maxLen) ==
    IF i > Len(s) THEN ParseFail(st)
    ELSE TakeRun(st, s, i, RunEnd(s, i), minLen, maxLen)

\* %d: one or two digits, or a blank and one digit
TakeDay(st, s) ==
    IF Lit(s, st.pos, " ") THEN TakeNum(st, s, st.pos + 1, 1, 1)
    ELSE TakeNum(st, s, st.pos, 1, 2)

\* a blank of the format is the pattern \s+
TakeBlanks(st, s, e) ==
    IF e > st.pos THEN [ok |-> TRUE, pos |-> e, fields |-> st.fields] ELSE ParseFail(st)

TakeLit(st, s, c) ==
    IF Lit(s, st.pos, c) THEN [ok |-> TRUE, pos |-> st.pos + 1, fields |-> st.fields]
    ELSE ParseFail(st)

\* one element of a format applied to the parse so far
ApplyDirective(c, st, s) ==
    IF ~st.ok THEN st
    ELSE IF c = "%Y" THEN TakeNum(st, s, st.pos, 4, 4)
    ELSE IF c = "%d" THEN TakeDay(st, s)
    ELSE IF c \in {"%m", "%H", "%M", "%S"} THEN TakeNum(st, s, st.pos, 1, 2)
    ELSE IF c = " " THEN TakeBlanks(st, s, BlanksEnd(s, st.pos))
    ELSE TakeLit(st, s, c)

\* the format "%Y<sep>%m<sep>%d %H:%M:%S"
DateFormat(sep) == << "%Y", sep, "%m", sep, "%d", " ", "%H", ":", "%M", ":", "%S" >>

\* the format matched against s from left to right
MatchFormat(s, fmt) ==
    LET P[i \in 0..Len(fmt)] ==
            IF i = 0 THEN ParseStart ELSE ApplyDirective(fmt[i], P[i - 1], s)
    IN  P[Len(fmt)]

IsLeap(y) == (y % 4 = 0 /\ y % 100 # 0) \/ y % 400 = 0

DaysInMonth(y, m) ==
    IF m = 2 THEN (IF IsLeap(y) THEN 29 ELSE 28)
    ELSE IF m \in {4, 6, 9, 11} THEN 30 ELSE 31

NoDate == [year |-> 0, month |-> 0, day |-> 0, hour |-> 0, minute |-> 0, second |-> 0]

ValueError == [ok |-> FALSE, dt |-> NoDate]

\* the values the directives accept (%m 1-12, %d 1-31, %H 0-23, %M 0-59,
\* %S 0-61) and the date-times datetime() accepts (no year 0, no day the
\* month lacks, no second 60 or 61)
FieldsValid(f) ==
    /\ f[2] \in 1..12 /\ f[3] \in 1..31 /\ f[4] \in 0..23 /\ f[5] \in 0..59
    /\ f[6] \in 0..61
    /\ f[1] >= 1 /\ f[3] <= DaysInMonth(f[1], f[2]) /\ f[6] <= 59

MakeDate(f) ==
    [year |-> f[1], month |-> f[2], day |-> f[3],
     hour |-> f[4], minute |-> f[5], second |-> f[6]]

\* the whole string has to be matched ("unconverted data remains" otherwise)
FinishParse(st, s) ==
    IF st.ok /\ st.pos = Len(s) + 1 /\ FieldsValid(st.fields)
    THEN [ok |-> TRUE, dt |-> MakeDate(st.fields)]
    ELSE ValueError

\* datetime.strptime(s, "%Y<sep>%m<sep>%d %H:%M:%S"): the date-time, or
\* ValueError
Strptime(s, sep) == FinishParse(MatchFormat(s, DateFormat(sep)), s)

Pad2(n) == <<DigitChar(n \div 10), DigitChar(n % 10)>>

Pad4(n) == Pad2(n \div 100) \o Pad2(n % 100)

\* a formatter that writes the day before the month
Strftime_DayFirst(date) ==
    Pad2(date.day) \o <<"/">> \o Pad2(date.month) \o <<"/">> \o Pad4(date.year)
      \o <<" ">> \o Pad2(date.hour) \o <<":">> \o Pad2(date.minute)
      \o <<":">> \o Pad2(date.second)

\* date.strftime('%m/%d/%Y %H:%M:%S')
Strftime(date) ==
    Pad2(date.month) \o <<"/">> \o Pad2(date.day) \o <<"/">> \o Pad4(date.year)
      \o <<" ">> \o Pad2(date.hour) \o <<":">> \o Pad2(date.minute)
      \o <<":">> \o Pad2(date.second)

(***************************************************************************)
(* pathlib.Path(p).name and .suffix                                        *)
(***************************************************************************)
\* the final path component: what follows the last "/"
PathName(p) == SubSeq(p, RFind(p, "/") + 1, Len(p))

\* PurePath.suffix: name[i:] for the last "." of the name, when that dot is
\* neither the first nor the last character of the name; else the empty string
PathSuffix(p) ==
    LET name == PathName(p)
        i    == RFind(name, ".")
    IN  IF 1 < i /\ i < Len(name) THEN SubSeq(name, i, Len(name)) ELSE <<>>

(***************************************************************************)
(* photo_date_updater.py: the format filter                                *)
(***************************************************************************)
SUPPORTED_FORMATS ==
    { <<".","j","p","g">>, <<".","j","p","e","g">>, <<".","t","i","f","f">>,
      <<".","t","i","f">>, <<".","p","n","g">>, <<".","h","e","i","c">>,
      <<".","h","e","i","f">>, <<".","c","r","2">>, <<".","n","e","f">>,
      <<".","a","r","w">>, <<".","m","p","4">>, <<".","m","o","v">>,
      <<".","a","v","i">>, <<".","m","k","v">> }

\* a filter that forgets to lower-case the suffix
is_supported_format_CaseSensitive(file_path) ==
    PathSuffix(file_path) \in SUPPORTED_FORMATS

is_supported_format(file_path) ==
    StrLower(PathSuffix(file_path)) \in SUPPORTED_FORMATS

(***************************************************************************)
(* inspect_metadata.py: the format filter                                  *)
(***************************************************************************)
INSPECT_SUPPORTED_FORMATS ==
    { <<".","j","p","g">>, <<".","j","p","e","g">>, <<".","t","i","f","f">>,
      <<".","t","i","f">>, <<".","p","n","g">>, <<".","h","e","i","c">>,
      <<".","h","e","i","f">>, <<".","c","r","2">>, <<".","n","e","f">>,
      <<".","a","r","w">>, <<".","m","p","4">>, <<".","m","o","v">>,
      <<".","a","v","i">>, <<".","m","k","v">> }

inspect_is_supported_format(file_path) ==
    StrLower(PathSuffix(file_path)) \in INSPECT_SUPPORTED_FORMATS

(***************************************************************************)
(* Inputs of the format filter                                             *)
(***************************************************************************)
\* every way of writing s in upper and lower case letters
RECURSIVE CaseVariants(_)
CaseVariants(s) ==
    IF s = <<>> THEN { <<>> }
    ELSE LET rest == CaseVariants(Tail(s))
         IN  { <<LowerChar(Head(s))>> \o r : r \in rest }
               \cup { <<UpperChar(Head(s))>> \o r : r \in rest }

\* the extensions of the tests' unsupported list, near misses of supported
\* ones, and no extension at all
OtherExtensions ==
    { <<"t","x","t">>, <<"p","d","f">>, <<"d","o","c">>, <<"w","m","v">>,
      <<"f","l","v">>, <<"w","e","b","m">>, <<"j","p">>, <<"j","p","g","x">>,
      <<"m","p","3">>, <<"g">>, <<>> }

\* an extension as written, without its dot
ExtensionsBare == { Tail(e) : e \in SUPPORTED_FORMATS } \cup OtherExtensions

FilterDirs == { <<>>, <<"d","/">>, <<"d",".","j","p","g","/">>, <<"/","t","m","p","/">> }

FilterStems == { <<"a">>, <<"T","E","S","T">>, <<"a",".","j","p","g">>, <<".","h">>, <<>> }

\* a name without an extension is a stem without a dot; "" is no file name
FilterWellFormed(i) ==
    /\ i.stem # <<>> \/ i.ext # <<>>
    /\ i.ext = <<>> => RFind(i.stem, ".") = 0

\* the path that the pieces spell: dir, stem, and "." ext when there is an ext
BuildPath(dir, stem, ext) ==
    dir \o stem \o (IF ext = <<>> THEN <<>> ELSE <<".">> \o ext)

\* base: an extension in lower case; ext: base as it is written in the path
FilterInputs ==
    UNION { { [dir |-> d, stem |-> s, base |-> b, ext |-> e] :
                d \in FilterDirs, s \in FilterStems, e \in CaseVariants(b) } :
            b \in ExtensionsBare }

FilterInit ==
    /\ ft_in \in { i \in FilterInputs : FilterWellFormed(i) }
    /\ ft_path = BuildPath(ft_in.dir, ft_in.stem, ft_in.ext)
    /\ ft_result = [called |-> FALSE, updater |-> FALSE, inspector |-> FALSE]

\* one call of each tool's is_supported_format on the same path
FilterCall ==
    /\ ~ft_result.called
    /\ ft_result' = [called    |-> TRUE,
                     updater   |-> is_supported_format(ft_path),
                     inspector |-> inspect_is_supported_format(ft_path)]
    /\ UNCHANGED <<ft_in, ft_path>>
    /\ UNCHANGED <<readerVars, walkVars, inspectFileVars, inspectVars>>

(***************************************************************************)
(* photo_date_updater.py: the metadata reader                              *)
(***************************************************************************)
EXIF_DATE_TAGS ==
    << "EXIF DateTimeOriginal", "EXIF DateTime", "Image DateTime",
       "EXIF SubSecTimeOriginal", "EXIF SubSecTime" >>

VIDEO_DATE_TAGS ==
    << "QuickTime CreateDate", "QuickTime DateTimeOriginal",
       "QuickTime DateTime", "QuickTime CreationDate" >>

\* the video suffixes of get_exif_date
VIDEO_SUFFIXES ==
    { <<".","m","p","4">>, <<".","m","o","v">>, <<".","a","v","i">>, <<".","m","k","v">> }

\* the date separators of the three formats tried on a video tag, in order
VIDEO_FORMATS == << ":", "-", "/" >>

\* what get_exif_date hands back: a datetime, None, or an exception that
\* leaves the function
Found(dt) == [kind |-> "datetime", dt |-> dt]
None      == [kind |-> "None", dt |-> NoDate]
Raised    == [kind |-> "raised", dt |-> NoDate]

\* the least index of a set of indices
First(S) == CHOOSE i \in S : \A j \in S : i <= j

\* for fmt in [...]: try: return strptime(date_str, fmt) except ValueError:
\* continue -- the parse under the first format that accepts the string
FirstFormat(date_str, accepting) ==
    IF accepting = {} THEN ValueError
    ELSE Strptime(date_str, VIDEO_FORMATS[First(accepting)])

TryVideoFormats(date_str) ==
    FirstFormat(date_str,
                { k \in DOMAIN VIDEO_FORMATS : Strptime(date_str, VIDEO_FORMATS[k]).ok })

FirstVideoTag(tags, parsing) ==
    IF parsing = {} THEN None
    ELSE Found(TryVideoFormats(tags[VIDEO_DATE_TAGS[First(parsing)]]).dt)

\* for tag in VIDEO_DATE_TAGS: if tag in tags: ... return on the first parse;
\* None when the loop ends without a return
ScanVideoTags(tags) ==
    FirstVideoTag(tags, { i \in DOMAIN VIDEO_DATE_TAGS :
                            /\ VIDEO_DATE_TAGS[i] \in DOMAIN tags
                            /\ TryVideoFormats(tags[VIDEO_DATE_TAGS[i]]).ok })

FirstExifTag(tags, parsing) ==
    IF parsing = {} THEN None
    ELSE Found(Strptime(tags[EXIF_DATE_TAGS[First(parsing)]], ":").dt)

\* a scan that gives up at the first present tag when it does not parse
ScanExifTags_StopAtBad(tags) ==
    FirstExifTag(tags, { i \in DOMAIN EXIF_DATE_TAGS :
                           /\ EXIF_DATE_TAGS[i] \in DOMAIN tags
                           /\ \A j \in 1..i : EXIF_DATE_TAGS[j] \in DOMAIN tags
                                  => Strptime(tags[EXIF_DATE_TAGS[j]], ":").ok })

\* for tag in EXIF_DATE_TAGS: if tag in tags: try: return strptime(...) except
\* ValueError: continue -- the parse of the first present tag that parses;
\* None when the loop ends without a return
ScanExifTags(tags) ==
    FirstExifTag(tags, { i \in DOMAIN EXIF_DATE_TAGS :
                           /\ EXIF_DATE_TAGS[i] \in DOMAIN tags
                           /\ Strptime(tags[EXIF_DATE_TAGS[i]], ":").ok })

\* the video tags are scanned for a video suffix only
VideoDate(file_ext, tags) ==
    IF file_ext \in VIDEO_SUFFIXES THEN ScanVideoTags(tags) ELSE None

\* a reader that scans the image tags before it looks at the video date
VideoThenExif_ImageFirst(video, tags) ==
    IF ScanExifTags(tags).kind = "datetime" THEN ScanExifTags(tags) ELSE video

\* a video date when there is one, else the scan of the image tags
VideoThenExif(video, tags) ==
    IF video.kind = "datetime" THEN video ELSE ScanExifTags(tags)

\* the body of get_exif_date's try block: open + exifread.process_file may
\* raise; otherwise the video tags (video suffix only), then the image tags
get_exif_date_try(file_path, lib) ==
    IF lib.raises THEN Raised
    ELSE VideoThenExif(VideoDate(StrLower(PathSuffix(file_path)), lib.tags), lib.tags)

\* a reader without the except clause
get_exif_date_NoExcept(file_path, lib) == get_exif_date_try(file_path, lib)

\* except Exception: log the error, return None
ReaderExcept(r) == IF r.kind = "raised" THEN None ELSE r

\* try: ... except Exception: ...
get_exif_date(file_path, lib) == ReaderExcept(get_exif_date_try(file_path, lib))

(***************************************************************************)
(* Inputs of the metadata reader                                           *)
(***************************************************************************)
\* at most this many date tags in the mapping the library returns
MaxTags == 2

DateA    == <<"2","0","2","3",":","0","6",":","2","0"," ","1","0",":","1","5",":","3","0">>
DateB    == <<"2","0","2","3",":","0","5",":","1","5"," ","1","4",":","3","0",":","2","5">>
DateDash == <<"2","0","2","1","-","1","2","-","3","1"," ","2","3",":","5","9",":","5","9">>
DateSlash == <<"2","0","2","0","/","0","2","/","2","9"," ","0","0",":","0","0",":","0","0">>
DateFeb30 == <<"2","0","2","3",":","0","2",":","3","0"," ","1","0",":","0","0",":","0","0">>
Invalid  == <<"i","n","v","a","l","i","d","-","d","a","t","e","-","f","o","r","m","a","t">>

TagValues == { DateA, DateB, DateDash, DateSlash, DateFeb30, Invalid }

Range(f) == { f[i] : i \in DOMAIN f }

DateTagNames == Range(EXIF_DATE_TAGS) \cup Range(VIDEO_DATE_TAGS)

\* the non-date tags every decoded file carries
OtherTags == [t \in {"EXIF Make", "EXIF Model"} |->
                IF t = "EXIF Make" THEN <<"C","a","n","o","n">> ELSE <<"R","5">>]

\* the mappings exifread.process_file can return
TagMaps ==
    UNION { { OtherTags @@ m : m \in [S -> TagValues] } :
              S \in { T \in SUBSET DateTagNames : Cardinality(T) <= MaxTags } }

ReaderPaths ==
    { <<"a",".","j","p","g">>, <<"b",".","p","n","g">>,
      <<"d","/","c",".","M","O","V">>, <<"e",".","m","p","4">> }

Pending == [kind |-> "pending", dt |-> NoDate]

ReaderInit ==
    /\ rd_path \in ReaderPaths
    /\ rd_lib \in { [raises |-> TRUE, tags |-> << >>] }
                    \cup { [raises |-> FALSE, tags |-> m] : m \in TagMaps }
    /\ rd_result = Pending

\* one call of get_exif_date
ReaderCall ==
    /\ rd_result = Pending
    /\ rd_result' = get_exif_date(rd_path, rd_lib)
    /\ UNCHANGED <<rd_path, rd_lib>>
    /\ UNCHANGED <<filterVars, walkVars, inspectFileVars, inspectVars>>

(***************************************************************************)
(* photo_date_updater.py: the date-update invoker                          *)
(***************************************************************************)
\* the largest exit status the SetFile process is given in the model
MaxExitStatus == 2

SetFile == <<"S","e","t","F","i","l","e">>

\* what subprocess.run can do: the process runs and ends with a return code
\* 0..MaxExitStatus, or it cannot be launched (FileNotFoundError)
RunOutcomes ==
    { [launched |-> TRUE, rc |-> c] : c \in 0..MaxExitStatus }
      \cup { [launched |-> FALSE, rc |-> 0] }

\* the body of update_creation_date's try block
update_creation_date_try(file_path, date, run) ==
    LET date_str == Strftime(date)
        cmd      == << SetFile, <<"-","d">>, date_str, file_path >>
    IN  IF ~run.launched THEN [cmd |-> cmd, raised |-> TRUE, value |-> FALSE]
        ELSE [cmd |-> cmd, raised |-> FALSE, value |-> (run.rc = 0)]

\* an invoker without the except clause
update_creation_date_NoExcept(file_path, date, run) ==
    update_creation_date_try(file_path, date, run)

\* an invoker that ignores the return code
update_creation_date_AnyExit(file_path, date, run) ==
    LET r == update_creation_date_try(file_path, date, run)
    IN  [cmd |-> r.cmd, raised |-> FALSE, value |-> run.launched]

\* try: ... except Exception: log the error, return False
update_creation_date(file_path, date, run) ==
    LET r == update_creation_date_try(file_path, date, run)
    IN  IF r.raised THEN [cmd |-> r.cmd, raised |-> FALSE, value |-> FALSE] ELSE r

(***************************************************************************)
(* The file system under the directory given to process_directory          *)
(***************************************************************************)
\* at most this many paths under the directory
MaxEntries == 3

Tags1(t, v) == OtherTags @@ (t :> v)
Tags2(t1, v1, t2, v2) == OtherTags @@ (t1 :> v1) @@ (t2 :> v2)

Decoded(tags) == [raises |-> FALSE, tags |-> tags]
Undecodable   == [raises |-> TRUE, tags |-> << >>]

\* the paths Path.rglob('*') can yield: regular files and directories, at the
\* top of the directory and below it, each with what exifread does on it
Catalog ==
    { [path |-> <<"/","p","/","a",".","j","p","g">>, is_file |-> TRUE,
       lib |-> Decoded(Tags2("EXIF DateTimeOriginal", DateA, "EXIF DateTime", DateB))],
      [path |-> <<"/","p","/","b",".","P","N","G">>, is_file |-> TRUE,
       lib |-> Decoded(OtherTags)],
      [path |-> <<"/","p","/","c",".","t","x","t">>, is_file |-> TRUE,
       lib |-> Decoded(Tags1("EXIF DateTimeOriginal", DateA))],
      [path |-> <<"/","p","/","d",".","j","p","g">>, is_file |-> FALSE,
       lib |-> Undecodable],
      [path |-> <<"/","p","/","s","/","e",".","m","o","v">>, is_file |-> TRUE,
       lib |-> Decoded(Tags2("QuickTime CreateDate", DateDash, "EXIF DateTime", DateB))],
      [path |-> <<"/","p","/","f",".","j","p","e","g">>, is_file |-> TRUE,
       lib |-> Undecodable],
      [path |-> <<"/","p","/","g",".","t","i","f">>, is_file |-> TRUE,
       lib |-> Decoded(Tags2("EXIF DateTimeOriginal", Invalid, "Image DateTime", DateB))] }

\* the listings of a directory: its paths in the order rglob yields them
RECURSIVE Listings(_)
Listings(n) ==
    IF n = 0 THEN { << >> }
    ELSE LET shorter == Listings(n - 1)
         IN  shorter \cup
             { Append(l, e) : l \in { s \in shorter : Len(s) = n - 1 }, e \in Catalog }

DistinctPaths(l) == \A i, j \in DOMAIN l : i # j => l[i].path # l[j].path

Directories == { l \in Listings(MaxEntries) : DistinctPaths(l) }

(***************************************************************************)
(* photo_date_updater.py: process_directory and main                       *)
(***************************************************************************)
NoTally == [logged |-> FALSE, updated |-> 0, skipped |-> 0, errors |-> 0]

\* an entry of the trace of calls made: the reader, the update invoker (with
\* the command it ran and what became of it), main's SetFile -h probe
ReadEvent(path, r) ==
    [op |-> "get_exif_date", path |-> path, cmd |-> << >>,
     launched |-> FALSE, rc |-> 0, ret |-> r.kind]

UpdateEvent(path, run, u) ==
    [op |-> "update_creation_date", path |-> path, cmd |-> u.cmd,
     launched |-> run.launched, rc |-> run.rc,
     ret |-> IF u.raised THEN "raised" ELSE IF u.value THEN "True" ELSE "False"]

WalkInit ==
    /\ pc \in {"main", "process_directory"}
    /\ platform \in (IF pc = "main" THEN {"darwin", "linux"} ELSE {"darwin"})
    /\ probe = "not run"
    /\ dry_run \in BOOLEAN
    /\ dir_kind \in {"missing", "file", "dir"}
    /\ listing \in (IF dir_kind = "dir" THEN Directories ELSE { << >> })
    /\ image_files = << >>
    /\ next_file = 1
    /\ exif_date = Pending
    /\ updated_count = 0
    /\ skipped_count = 0
    /\ error_count = 0
    /\ trace = << >>
    /\ log = << >>
    /\ tally = NoTally
    /\ exit_status = 0

\* main, lines 225-227: not macOS: error, sys.exit(1)
MainWrongPlatform ==
    /\ pc = "main"
    /\ platform # "darwin"
    /\ log' = Append(log, "ERROR macOS only")
    /\ exit_status' = 1
    /\ pc' = "exited"
    /\ UNCHANGED <<exif_date, platform, probe, dry_run, dir_kind, listing, image_files, next_file,
                   updated_count, skipped_count, error_count, trace, tally>>
    /\ UNCHANGED <<filterVars, readerVars, inspectFileVars, inspectVars>>

\* main, lines 230-234: SetFile -h cannot be launched (FileNotFoundError) or
\* ends non-zero (CalledProcessError, check=True): error, sys.exit(1)
MainNoSetFile ==
    /\ pc = "main"
    /\ platform = "darwin"
    /\ \E p \in {"FileNotFoundError", "CalledProcessError"} : probe' = p
    /\ log' = Append(log, "ERROR SetFile command not found")
    /\ exit_status' = 1
    /\ pc' = "exited"
    /\ UNCHANGED <<exif_date, platform, dry_run, dir_kind, listing, image_files, next_file,
                   updated_count, skipped_count, error_count, trace, tally>>
    /\ UNCHANGED <<filterVars, readerVars, inspectFileVars, inspectVars>>

\* a main without the platform check
MainProcess_AnyPlatform ==
    /\ pc = "main"
    /\ probe' = "ok"
    /\ pc' = "process_directory"
    /\ UNCHANGED <<exif_date, platform, dry_run, dir_kind, listing, image_files, next_file,
                   updated_count, skipped_count, error_count, trace, log, tally,
                   exit_status>>
    /\ UNCHANGED <<filterVars, readerVars, inspectFileVars, inspectVars>>

\* main, lines 225-237: macOS and SetFile -h ends with 0: call process_directory
MainProcess ==
    /\ pc = "main"
    /\ platform = "darwin"
    /\ probe' = "ok"
    /\ pc' = "process_directory"
    /\ UNCHANGED <<exif_date, platform, dry_run, dir_kind, listing, image_files, next_file,
                   updated_count, skipped_count, error_count, trace, log, tally,
                   exit_status>>
    /\ UNCHANGED <<filterVars, readerVars, inspectFileVars, inspectVars>>

\* lines 136-138
RejectMissing ==
    /\ pc = "process_directory"
    /\ dir_kind = "missing"
    /\ log' = Append(log, "ERROR Directory does not exist")
    /\ pc' = "returned"
    /\ UNCHANGED <<exif_date, platform, probe, dry_run, dir_kind, listing, image_files, next_file,
                   updated_count, skipped_count, error_count, trace, tally, exit_status>>
    /\ UNCHANGED <<filterVars, readerVars, inspectFileVars, inspectVars>>

\* lines 140-142
RejectNotDirectory ==
    /\ pc = "process_directory"
    /\ dir_kind = "file"
    /\ log' = Append(log, "ERROR Path is not a directory")
    /\ pc' = "returned"
    /\ UNCHANGED <<exif_date, platform, probe, dry_run, dir_kind, listing, image_files, next_file,
                   updated_count, skipped_count, error_count, trace, tally, exit_status>>
    /\ UNCHANGED <<filterVars, readerVars, inspectFileVars, inspectVars>>

\* lines 145-148: the regular files of rglob('*') that pass the format filter
IsImageFile(e) == e.is_file /\ is_supported_format(e.path)

SelectImageFiles(l) == SelectSeq(l, IsImageFile)

\* an enumeration that skips the path checks
Enumerate_Unchecked ==
    /\ pc = "process_directory"
    /\ LET found == SelectImageFiles(listing)
       IN  /\ image_files' = found
           /\ IF found = << >>
              THEN /\ log' = Append(log, "INFO No supported image files found")
                   /\ pc' = "returned"
              ELSE /\ log' = Append(log, "INFO Found image files to process")
                   /\ pc' = "loop"
    /\ UNCHANGED <<exif_date, platform, probe, dry_run, dir_kind, listing, next_file,
                   updated_count, skipped_count, error_count, trace, tally, exit_status>>
    /\ UNCHANGED <<filterVars, readerVars, inspectFileVars, inspectVars>>

\* lines 144-158: an existing directory: collect image_files; return when
\* there is none, else set the counters to 0 and enter the loop
Enumerate ==
    /\ pc = "process_directory"
    /\ dir_kind = "dir"
    /\ LET found == SelectImageFiles(listing)
       IN  /\ image_files' = found
           /\ IF found = << >>
              THEN /\ log' = Append(log, "INFO No supported image files found")
                   /\ pc' = "returned"
              ELSE /\ log' = Append(log, "INFO Found image files to process")
                   /\ pc' = "loop"
    /\ UNCHANGED <<exif_date, platform, probe, dry_run, dir_kind, listing, next_file,
                   updated_count, skipped_count, error_count, trace, tally, exit_status>>
    /\ UNCHANGED <<filterVars, readerVars, inspectFileVars, inspectVars>>

\* the file of the current loop iteration
CurrentFile == image_files[next_file]

\* get_exif_date on each file of the catalog: the file with what the call does
ReaderAnswers == { << e, get_exif_date(e.path, e.lib) >> : e \in Catalog }

\* get_exif_date(file_path) in process_directory
ReaderAnswer(file) == (CHOOSE a \in ReaderAnswers : a[1] = file)[2]

\* lines 160-164: the next file of the list is handed to the reader
ReadFile ==
    /\ pc = "loop"
    /\ next_file <= Len(image_files)
    /\ LET r == ReaderAnswer(CurrentFile)
       IN  /\ exif_date' = r
           /\ trace' = Append(trace, ReadEvent(CurrentFile.path, r))
           /\ pc' = IF r.kind = "raised" THEN "crashed" ELSE "file"
    /\ UNCHANGED <<platform, probe, dry_run, dir_kind, listing, image_files, next_file,
                   updated_count, skipped_count, error_count, log, tally, exit_status>>
    /\ UNCHANGED <<filterVars, readerVars, inspectFileVars, inspectVars>>

\* lines 166-169: the reader returned None
ProcessSkipped ==
    /\ pc = "file"
    /\ exif_date.kind = "None"
    /\ skipped_count' = skipped_count + 1
    /\ log' = Append(log, "WARNING Skipping - no EXIF date found")
    /\ next_file' = next_file + 1
    /\ pc' = "loop"
    /\ UNCHANGED <<platform, probe, dry_run, dir_kind, listing, image_files, exif_date,
                   updated_count, error_count, trace, tally, exit_status>>
    /\ UNCHANGED <<filterVars, readerVars, inspectFileVars, inspectVars>>

\* a dry-run step that counts nothing
ProcessDryRun_NoCount ==
    /\ pc = "file"
    /\ exif_date.kind = "datetime"
    /\ dry_run
    /\ log' = Append(log, "INFO [DRY RUN] Would update")
    /\ next_file' = next_file + 1
    /\ pc' = "loop"
    /\ UNCHANGED <<platform, probe, dry_run, dir_kind, listing, image_files, exif_date,
                   updated_count, skipped_count, error_count, trace, tally, exit_status>>
    /\ UNCHANGED <<filterVars, readerVars, inspectFileVars, inspectVars>>

\* lines 171-173: a date was found and dry_run is set
ProcessDryRun ==
    /\ pc = "file"
    /\ exif_date.kind = "datetime"
    /\ dry_run
    /\ log' = Append(log, "INFO [DRY RUN] Would update")
    /\ updated_count' = updated_count + 1
    /\ next_file' = next_file + 1
    /\ pc' = "loop"
    /\ UNCHANGED <<platform, probe, dry_run, dir_kind, listing, image_files, exif_date,
                   skipped_count, error_count, trace, tally, exit_status>>
    /\ UNCHANGED <<filterVars, readerVars, inspectFileVars, inspectVars>>

\* what line 176-179 do with the invoker's answer u for the SetFile outcome run
Tallied(run, u) ==
    /\ trace' = Append(trace, UpdateEvent(CurrentFile.path, run, u))
    /\ IF u.raised
       THEN /\ pc' = "crashed"
            /\ UNCHANGED <<updated_count, error_count, next_file>>
       ELSE /\ updated_count' = IF u.value THEN updated_count + 1 ELSE updated_count
            /\ error_count' = IF u.value THEN error_count ELSE error_count + 1
            /\ next_file' = next_file + 1
            /\ pc' = "loop"

\* an update step that does not look at dry_run
ProcessUpdate_IgnoreDryRun ==
    /\ pc = "file"
    /\ exif_date.kind = "datetime"
    /\ \E run \in RunOutcomes :
         Tallied(run, update_creation_date(CurrentFile.path, exif_date.dt, run))
    /\ UNCHANGED <<platform, probe, dry_run, dir_kind, listing, image_files, exif_date,
                   skipped_count, log, tally, exit_status>>
    /\ UNCHANGED <<filterVars, readerVars, inspectFileVars, inspectVars>>

\* an update step that runs a failed SetFile a second time
ProcessUpdate_RetryOnce ==
    /\ pc = "file"
    /\ exif_date.kind = "datetime"
    /\ ~dry_run
    /\ \E run \in RunOutcomes :
         IF (run.rc = 0 /\ run.launched) \/ trace[Len(trace)].op = "update_creation_date"
         THEN Tallied(run, update_creation_date(CurrentFile.path, exif_date.dt, run))
         ELSE /\ trace' = Append(trace, UpdateEvent(CurrentFile.path, run,
                               update_creation_date(CurrentFile.path, exif_date.dt, run)))
              /\ UNCHANGED <<updated_count, error_count, next_file, pc>>
    /\ UNCHANGED <<platform, probe, dry_run, dir_kind, listing, image_files, exif_date,
                   skipped_count, log, tally, exit_status>>
    /\ UNCHANGED <<filterVars, readerVars, inspectFileVars, inspectVars>>

\* lines 174-179: a date was found and dry_run is off: update_creation_date,
\* whose SetFile process ends in any of RunOutcomes
ProcessUpdate ==
    /\ pc = "file"
    /\ exif_date.kind = "datetime"
    /\ ~dry_run
    /\ \E run \in RunOutcomes :
         Tallied(run, update_creation_date(CurrentFile.path, exif_date.dt, run))
    /\ UNCHANGED <<platform, probe, dry_run, dir_kind, listing, image_files, exif_date,
                   skipped_count, log, tally, exit_status>>
    /\ UNCHANGED <<filterVars, readerVars, inspectFileVars, inspectVars>>

\* a summary that may be logged before the loop has ended
Summary_Early ==
    /\ pc = "loop"
    /\ tally' = [logged |-> TRUE, updated |-> updated_count,
                 skipped |-> skipped_count, errors |-> error_count]
    /\ log' = Append(log, "INFO Processing complete")
    /\ pc' = "returned"
    /\ UNCHANGED <<exif_date, platform, probe, dry_run, dir_kind, listing, image_files, next_file,
                   updated_count, skipped_count, error_count, trace, exit_status>>
    /\ UNCHANGED <<filterVars, readerVars, inspectFileVars, inspectVars>>

\* lines 181-185: the loop has ended: log the three counters, return
Summary ==
    /\ pc = "loop"
    /\ next_file > Len(image_files)
    /\ tally' = [logged |-> TRUE, updated |-> updated_count,
                 skipped |-> skipped_count, errors |-> error_count]
    /\ log' = Append(log, "INFO Processing complete")
    /\ pc' = "returned"
    /\ UNCHANGED <<exif_date, platform, probe, dry_run, dir_kind, listing, image_files, next_file,
                   updated_count, skipped_count, error_count, trace, exit_status>>
    /\ UNCHANGED <<filterVars, readerVars, inspectFileVars, inspectVars>>

Next ==
    \/ MainWrongPlatform
    \/ MainNoSetFile
    \/ MainProcess
    \/ RejectMissing
    \/ RejectNotDirectory
    \/ Enumerate
    \/ ReadFile
    \/ ProcessSkipped
    \/ ProcessDryRun
    \/ ProcessUpdate
    \/ Summary

(***************************************************************************)
(* inspect_metadata.py: inspect_file_metadata                              *)
(***************************************************************************)
\* str(tag): the characters of the tag names of the model
TagChars ==
    ("EXIF DateTimeOriginal" :> <<"E","X","I","F"," ","D","a","t","e","T","i","m","e","O","r","i","g","i","n","a","l">>) @@
    ("EXIF DateTime" :> <<"E","X","I","F"," ","D","a","t","e","T","i","m","e">>) @@
    ("Image DateTime" :> <<"I","m","a","g","e"," ","D","a","t","e","T","i","m","e">>) @@
    ("EXIF SubSecTimeOriginal" :> <<"E","X","I","F"," ","S","u","b","S","e","c","T","i","m","e","O","r","i","g","i","n","a","l">>) @@
    ("EXIF SubSecTime" :> <<"E","X","I","F"," ","S","u","b","S","e","c","T","i","m","e">>) @@
    ("QuickTime CreateDate" :> <<"Q","u","i","c","k","T","i","m","e"," ","C","r","e","a","t","e","D","a","t","e">>) @@
    ("QuickTime DateTimeOriginal" :> <<"Q","u","i","c","k","T","i","m","e"," ","D","a","t","e","T","i","m","e","O","r","i","g","i","n","a","l">>) @@
    ("QuickTime DateTime" :> <<"Q","u","i","c","k","T","i","m","e"," ","D","a","t","e","T","i","m","e">>) @@
    ("QuickTime CreationDate" :> <<"Q","u","i","c","k","T","i","m","e"," ","C","r","e","a","t","i","o","n","D","a","t","e">>) @@
    ("EXIF Make" :> <<"E","X","I","F"," ","M","a","k","e">>) @@
    ("EXIF Model" :> <<"E","X","I","F"," ","M","o","d","e","l">>) @@
    ("EXIF ExposureTime" :> <<"E","X","I","F"," ","E","x","p","o","s","u","r","e","T","i","m","e">>) @@
    ("EXIF ISOSpeedRatings" :> <<"E","X","I","F"," ","I","S","O","S","p","e","e","d","R","a","t","i","n","g","s">>) @@
    ("EXIF FocalLength" :> <<"E","X","I","F"," ","F","o","c","a","l","L","e","n","g","t","h">>) @@
    ("QuickTime VideoCodec" :> <<"Q","u","i","c","k","T","i","m","e"," ","V","i","d","e","o","C","o","d","e","c">>) @@
    ("QuickTime Model" :> <<"Q","u","i","c","k","T","i","m","e"," ","M","o","d","e","l">>) @@
    ("EXIF ColorSpace" :> <<"E","X","I","F"," ","C","o","l","o","r","S","p","a","c","e">>) @@
    ("Image Orientation" :> <<"I","m","a","g","e"," ","O","r","i","e","n","t","a","t","i","o","n">>) @@
    ("MakerNote FrameInfo" :> <<"M","a","k","e","r","N","o","t","e"," ","F","r","a","m","e","I","n","f","o">>) @@
    ("EXIF VideoCodec" :> <<"E","X","I","F"," ","V","i","d","e","o","C","o","d","e","c">>) @@
    ("EXIF AudioBitrate" :> <<"E","X","I","F"," ","A","u","d","i","o","B","i","t","r","a","t","e">>)

\* the code-point order of the characters of tag names
CharOrder == << " " >> \o Digits \o UpperLetters \o LowerLetters

Ord(c) == CHOOSE i \in DOMAIN CharOrder : CharOrder[i] = c

\* the first position where two strings differ, one past the shorter when one
\* is a prefix of the other
FirstDifference(a, b) ==
    First({ k \in 1..(Len(a) + 1) : k > Len(a) \/ k > Len(b) \/ a[k] # b[k] })

StrLessAt(a, b, k) ==
    IF k > Len(a) THEN k <= Len(b)
    ELSE IF k > Len(b) THEN FALSE
    ELSE Ord(a[k]) < Ord(b[k])

\* a < b on str
StrLess(a, b) == StrLessAt(a, b, FirstDifference(a, b))

\* word in s
Contains(s, word) ==
    \E i \in 1..(Len(s) - Len(word) + 1) : SubSeq(s, i, i + Len(word) - 1) = word

\* any(word in s for word in words)
AnyIn(words, s) == \E k \in DOMAIN words : Contains(s, words[k])

DATE_WORDS ==
    << <<"d","a","t","e">>,
       <<"t","i","m","e">>,
       <<"c","r","e","a","t","e">>,
       <<"o","r","i","g","i","n","a","l">> >>

CAMERA_WORDS ==
    << <<"m","a","k","e">>,
       <<"m","o","d","e","l">>,
       <<"l","e","n","s">>,
       <<"f","o","c","a","l">>,
       <<"a","p","e","r","t","u","r","e">>,
       <<"i","s","o">>,
       <<"e","x","p","o","s","u","r","e">> >>

VIDEO_WORDS ==
    << <<"q","u","i","c","k","t","i","m","e">>,
       <<"v","i","d","e","o">>,
       <<"a","u","d","i","o">>,
       <<"c","o","d","e","c">>,
       <<"b","i","t","r","a","t","e">>,
       <<"f","r","a","m","e">> >>

\* a chain that tries the camera words before the date words
CategoryOf_CameraFirst(lowered) ==
    IF AnyIn(CAMERA_WORDS, lowered) THEN "camera"
    ELSE IF AnyIn(DATE_WORDS, lowered) THEN "date"
    ELSE IF AnyIn(VIDEO_WORDS, lowered) THEN "video"
    ELSE "other"

\* lines 59-66: the if / elif / elif / else chain on tag_str.lower()
CategoryOf(lowered) ==
    IF AnyIn(DATE_WORDS, lowered) THEN "date"
    ELSE IF AnyIn(CAMERA_WORDS, lowered) THEN "camera"
    ELSE IF AnyIn(VIDEO_WORDS, lowered) THEN "video"
    ELSE "other"

Categorize(tag) == CategoryOf(StrLower(TagChars[tag]))

\* the least tag name of a set, by str order (dictionary keys are distinct)
LeastTag(S) == CHOOSE t \in S : \A u \in S \ {t} : StrLess(TagChars[t], TagChars[u])

\* sorted(list of (tag_str, value_str)) for the tags S of a mapping
RECURSIVE SortedTags(_, _)
SortedTags(S, tags) ==
    IF S = {} THEN << >>
    ELSE << << TagChars[LeastTag(S)], tags[LeastTag(S)] >> >>
             \o SortedTags(S \ {LeastTag(S)}, tags)

\* lines 49-72: the list of one category, sorted
TagsOfCategory(tags, category) ==
    SortedTags({ t \in DOMAIN tags : Categorize(t) = category }, tags)

NoMetadata ==
    [kind |-> "None", date_tags |-> << >>, camera_tags |-> << >>,
     video_tags |-> << >>, other_tags |-> << >>, total_tags |-> 0]

InspectRaised == [NoMetadata EXCEPT !.kind = "raised"]

InspectPending == [NoMetadata EXCEPT !.kind = "pending"]

\* the body of inspect_file_metadata's try block
inspect_file_metadata_try(lib) ==
    IF lib.raises THEN InspectRaised
    ELSE IF DOMAIN lib.tags = {} THEN NoMetadata
    ELSE [kind        |-> "dict",
          date_tags   |-> TagsOfCategory(lib.tags, "date"),
          camera_tags |-> TagsOfCategory(lib.tags, "camera"),
          video_tags  |-> TagsOfCategory(lib.tags, "video"),
          other_tags  |-> TagsOfCategory(lib.tags, "other"),
          total_tags  |-> Cardinality(DOMAIN lib.tags)]

\* except Exception: log, return None
InspectExcept(r) == IF r.kind = "raised" THEN NoMetadata ELSE r

inspect_file_metadata(lib) == InspectExcept(inspect_file_metadata_try(lib))

(***************************************************************************)
(* Inputs of inspect_file_metadata                                         *)
(***************************************************************************)
\* at most this many tags in the mapping handed to inspect_file_metadata
MaxInspectTags == 3

InspectTagNames ==
    { "EXIF DateTimeOriginal", "QuickTime CreateDate", "EXIF ExposureTime",
      "QuickTime Model", "EXIF ISOSpeedRatings", "EXIF Make",
      "MakerNote FrameInfo", "EXIF VideoCodec", "EXIF AudioBitrate",
      "EXIF ColorSpace", "Image Orientation" }

InspectValue(t) == IF t \in DateTagNames THEN DateB ELSE <<"C","a","n","o","n">>

InspectTagMaps ==
    { [t \in S |-> InspectValue(t)] :
        S \in { T \in SUBSET InspectTagNames : Cardinality(T) <= MaxInspectTags } }

InspectFileInit ==
    /\ im_lib \in { Undecodable } \cup { Decoded(m) : m \in InspectTagMaps }
    /\ im_result = InspectPending

\* one call of inspect_file_metadata
InspectFileCall ==
    /\ im_result = InspectPending
    /\ im_result' = inspect_file_metadata(im_lib)
    /\ UNCHANGED im_lib
    /\ UNCHANGED <<filterVars, readerVars, walkVars, inspectVars>>

(***************************************************************************)
(* inspect_metadata.py: inspect_directory                                  *)
(***************************************************************************)
\* the directory handed to the walkers
Directory == <<"/","p">>

\* PurePath.parent
PathParent(p) == SubSeq(p, 1, RFind(p, "/") - 1)

IsChild(e) == PathParent(e.path) = Directory

\* directory.glob('*'): the immediate children among the paths below the
\* directory
Glob(l) == SelectSeq(l, IsChild)

\* line 151
IsSupportedFile(e) == e.is_file /\ inspect_is_supported_format(e.path)

\* an enumeration that always takes the immediate children only
ListFiles_ChildrenOnly(flag, l) == Glob(l)

\* lines 146-149
ListFiles(flag, l) == IF flag THEN l ELSE Glob(l)

Min(a, b) == IF a <= b THEN a ELSE b

\* print_metadata_summary, lines 93-131: the total, the four lists, of the
\* other tags the first 10
Summarized(path, m) ==
    [path |-> path, total_tags |-> m.total_tags, date_tags |-> m.date_tags,
     camera_tags |-> m.camera_tags, video_tags |-> m.video_tags,
     other_tags |-> SubSeq(m.other_tags, 1, Min(10, Len(m.other_tags)))]

\* print_metadata_summary: nothing is printed for None
PrintSummary(out, path, m) ==
    IF m.kind = "dict" THEN Append(out, Summarized(path, m)) ELSE out

InspectInit ==
    /\ in_pc = "inspect_directory"
    /\ recursive \in BOOLEAN
    /\ files = << >>
    /\ supported_files = << >>
    /\ in_next = 1
    /\ printed = << >>
    /\ in_log = << >>

\* lines 137-139
InspectRejectMissing ==
    /\ in_pc = "inspect_directory"
    /\ dir_kind = "missing"
    /\ in_log' = Append(in_log, "ERROR Directory does not exist")
    /\ in_pc' = "returned"
    /\ UNCHANGED <<recursive, files, supported_files, in_next, printed>>
    /\ UNCHANGED <<filterVars, readerVars, walkVars, inspectFileVars>>

\* lines 141-143
InspectRejectNotDirectory ==
    /\ in_pc = "inspect_directory"
    /\ dir_kind = "file"
    /\ in_log' = Append(in_log, "ERROR Path is not a directory")
    /\ in_pc' = "returned"
    /\ UNCHANGED <<recursive, files, supported_files, in_next, printed>>
    /\ UNCHANGED <<filterVars, readerVars, walkVars, inspectFileVars>>

\* lines 145-157: an existing directory: list it per the flag, keep the
\* supported regular files; return when there is none, else enter the loop
InspectEnumerate ==
    /\ in_pc = "inspect_directory"
    /\ dir_kind = "dir"
    /\ files' = ListFiles(recursive, listing)
    /\ supported_files' = SelectSeq(files', IsSupportedFile)
    /\ IF supported_files' = << >>
       THEN /\ in_log' = Append(in_log, "INFO No supported files found")
            /\ in_pc' = "returned"
       ELSE /\ in_log' = Append(in_log, "INFO Found supported files to inspect")
            /\ in_pc' = "loop"
    /\ UNCHANGED <<recursive, in_next, printed>>
    /\ UNCHANGED <<filterVars, readerVars, walkVars, inspectFileVars>>

\* lines 159-161: one iteration: inspect the file, print its summary; the
\* function ends with the last file
InspectFile ==
    /\ in_pc = "loop"
    /\ in_next <= Len(supported_files)
    /\ printed' = PrintSummary(printed, supported_files[in_next].path,
                               inspect_file_metadata(supported_files[in_next].lib))
    /\ in_next' = in_next + 1
    /\ in_pc' = IF in_next = Len(supported_files) THEN "returned" ELSE "loop"
    /\ UNCHANGED <<recursive, files, supported_files, in_log>>
    /\ UNCHANGED <<filterVars, readerVars, walkVars, inspectFileVars>>

(***************************************************************************)
(* Specifications                                                          *)
(***************************************************************************)
\* process_directory not called
WalkParked ==
    /\ pc = "idle"
    /\ platform = "darwin"
    /\ probe = "not run"
    /\ dry_run = FALSE
    /\ image_files = << >>
    /\ next_file = 1
    /\ exif_date = Pending
    /\ updated_count = 0
    /\ skipped_count = 0
    /\ error_count = 0
    /\ trace = << >>
    /\ log = << >>
    /\ tally = NoTally
    /\ exit_status = 0

WalkIdle ==
    /\ WalkParked
    /\ dir_kind = "missing"
    /\ listing = << >>

InspectFileIdle ==
    /\ im_lib = Undecodable
    /\ im_result = InspectPending

InspectIdle ==
    /\ in_pc = "idle"
    /\ recursive = FALSE
    /\ files = << >>
    /\ supported_files = << >>
    /\ in_next = 1
    /\ printed = << >>
    /\ in_log = << >>

FilterIdle ==
    /\ ft_in = [dir |-> <<>>, stem |-> <<>>, base |-> <<>>, ext |-> <<>>]
    /\ ft_path = <<>>
    /\ ft_result = [called |-> FALSE, updater |-> FALSE, inspector |-> FALSE]

ReaderIdle ==
    /\ rd_path = <<>>
    /\ rd_lib = [raises |-> TRUE, tags |-> << >>]
    /\ rd_result = Pending

\* the format filters applied to one path
FilterNext == FilterCall

SpecFilterInit ==
    FilterInit /\ ReaderIdle /\ WalkIdle /\ InspectFileIdle /\ InspectIdle

SpecFilter == SpecFilterInit /\ [][FilterNext]_vars

\* the reader applied to one file
ReaderNext == ReaderCall

SpecReaderInit ==
    ReaderInit /\ FilterIdle /\ WalkIdle /\ InspectFileIdle /\ InspectIdle

SpecReader == SpecReaderInit /\ [][ReaderNext]_vars

\* main and process_directory on one directory
Init == WalkInit /\ FilterIdle /\ ReaderIdle /\ InspectFileIdle /\ InspectIdle

Spec == Init /\ [][Next]_vars

\* the same program run to its end: the interpreter takes the next step
\* whenever there is one, every call of exifread and of SetFile returning
FairSpec == Init /\ [][Next]_vars /\ WF_vars(Next)

\* inspect_file_metadata applied to one file
InspectFileNext == InspectFileCall

SpecInspectFileInit ==
    InspectFileInit /\ FilterIdle /\ ReaderIdle /\ WalkIdle /\ InspectIdle

SpecInspectFile == SpecInspectFileInit /\ [][InspectFileNext]_vars

\* one of the two walkers on one directory: process_directory of the updater
\* or inspect_directory of the inspector
UpdaterWalkInit == WalkInit /\ pc = "process_directory" /\ InspectIdle

InspectorWalkInit ==
    /\ InspectInit
    /\ WalkParked
    /\ dir_kind \in {"missing", "file", "dir"}
    /\ listing \in (IF dir_kind = "dir" THEN Directories ELSE { << >> })

WalkersInit ==
    /\ FilterIdle /\ ReaderIdle /\ InspectFileIdle
    /\ (UpdaterWalkInit \/ InspectorWalkInit)

WalkersNext ==
    \/ RejectMissing
    \/ RejectNotDirectory
    \/ Enumerate
    \/ ReadFile
    \/ ProcessSkipped
    \/ ProcessDryRun
    \/ ProcessUpdate
    \/ Summary
    \/ InspectRejectMissing
    \/ InspectRejectNotDirectory
    \/ InspectEnumerate
    \/ InspectFile

SpecWalkers == WalkersInit /\ [][WalkersNext]_vars

(***************************************************************************)
(* Reference data of the properties below: what the inputs of the model    *)
(* denote, written out by hand                                             *)
(***************************************************************************)
DtA     == [year |-> 2023, month |-> 6, day |-> 20, hour |-> 10, minute |-> 15, second |-> 30]
DtB     == [year |-> 2023, month |-> 5, day |-> 15, hour |-> 14, minute |-> 30, second |-> 25]
DtDash  == [year |-> 2021, month |-> 12, day |-> 31, hour |-> 23, minute |-> 59, second |-> 59]
DtSlash == [year |-> 2020, month |-> 2, day |-> 29, hour |-> 0, minute |-> 0, second |-> 0]

\* the date-time a tag value denotes when read as YYYY<sep>MM<sep>DD HH:MM:SS,
\* NoDate when it is no such date-time
ExpectedDate(v, sep) ==
    IF sep = ":" /\ v = DateA THEN DtA
    ELSE IF sep = ":" /\ v = DateB THEN DtB
    ELSE IF sep = "-" /\ v = DateDash THEN DtDash
    ELSE IF sep = "/" /\ v = DateSlash THEN DtSlash
    ELSE NoDate

ImageTagOrder ==
    << "EXIF DateTimeOriginal", "EXIF DateTime", "Image DateTime",
       "EXIF SubSecTimeOriginal", "EXIF SubSecTime" >>

VideoTagOrder ==
    << "QuickTime CreateDate", "QuickTime DateTimeOriginal",
       "QuickTime DateTime", "QuickTime CreationDate" >>

\* the reader's input files that are videos
VideoPaths == { <<"d","/","c",".","M","O","V">>, <<"e",".","m","p","4">> }

ReaderCalled == rd_result # Pending

\* the image tags, by position in the order, that are present with a value
\* that is a colon-separated date-time
ImageTagsWithDate ==
    { i \in DOMAIN ImageTagOrder :
        /\ ImageTagOrder[i] \in DOMAIN rd_lib.tags
        /\ ExpectedDate(rd_lib.tags[ImageTagOrder[i]], ":") # NoDate }

VideoTagsWithDate ==
    { i \in DOMAIN VideoTagOrder :
        /\ VideoTagOrder[i] \in DOMAIN rd_lib.tags
        /\ \E sep \in {":", "-", "/"} :
              ExpectedDate(rd_lib.tags[VideoTagOrder[i]], sep) # NoDate }

(***************************************************************************)
(* Properties of the metadata reader (SpecReader)                          *)
(***************************************************************************)
\* C2: for a non-video file that decodes, when some tag of the order
\* EXIF DateTimeOriginal, EXIF DateTime, Image DateTime, EXIF SubSecTimeOriginal,
\* EXIF SubSecTime is present with a value that is a YYYY:MM:DD HH:MM:SS
\* date-time, get_exif_date returns the date-time of the earliest such tag:
\* earlier present tags that do not parse are skipped, later tags do not matter.
C2_ImageTagPriority ==
    (ReaderCalled /\ ~rd_lib.raises /\ rd_path \notin VideoPaths /\ ImageTagsWithDate # {})
      => rd_result = Found(ExpectedDate(
                        rd_lib.tags[ImageTagOrder[First(ImageTagsWithDate)]], ":"))

\* C2 witness: the first tag of the order is present and unparsable, a later
\* one holds a date, and the reader returned that date
C2_Witness ==
    /\ ReaderCalled
    /\ rd_path = <<"a",".","j","p","g">>
    /\ "EXIF DateTimeOriginal" \in DOMAIN rd_lib.tags
    /\ rd_lib.tags["EXIF DateTimeOriginal"] = Invalid
    /\ "Image DateTime" \in DOMAIN rd_lib.tags
    /\ rd_lib.tags["Image DateTime"] = DateA
    /\ rd_result = Found(DtA)

\* C3: get_exif_date never raises; it returns None when the library fails to
\* decode the file; it returns a date-time exactly when the file decodes and
\* some candidate tag (an image tag, or for a video file a video tag) holds a
\* value that parses, and None otherwise.
C3_ReaderNeverRaises ==
    ReaderCalled =>
      /\ rd_result.kind \in {"None", "datetime"}
      /\ rd_lib.raises => rd_result = None
      /\ rd_result.kind = "datetime" <=>
            /\ ~rd_lib.raises
            /\ \/ ImageTagsWithDate # {}
               \/ rd_path \in VideoPaths /\ VideoTagsWithDate # {}

\* C3 witness: the library raised on the file and the reader returned None
C3_Witness ==
    /\ ReaderCalled
    /\ rd_lib.raises
    /\ rd_result = None

(***************************************************************************)
(* Reference data of the walk                                              *)
(***************************************************************************)
\* the paths of the catalog that are regular files with an extension of the
\* supported list, in whatever letter case
SupportedRegularFiles ==
    { <<"/","p","/","a",".","j","p","g">>, <<"/","p","/","b",".","P","N","G">>,
      <<"/","p","/","s","/","e",".","m","o","v">>,
      <<"/","p","/","f",".","j","p","e","g">>, <<"/","p","/","g",".","t","i","f">> }

\* of those, the files whose metadata holds a date, with that date written
\* MM/DD/YYYY HH:MM:SS; << >> for every other path
FormattedDateOf(path) ==
    IF path = <<"/","p","/","a",".","j","p","g">>
    THEN <<"0","6","/","2","0","/","2","0","2","3"," ","1","0",":","1","5",":","3","0">>
    ELSE IF path = <<"/","p","/","s","/","e",".","m","o","v">>
    THEN <<"1","2","/","3","1","/","2","0","2","1"," ","2","3",":","5","9",":","5","9">>
    ELSE IF path = <<"/","p","/","g",".","t","i","f">>
    THEN <<"0","5","/","1","5","/","2","0","2","3"," ","1","4",":","3","0",":","2","5">>
    ELSE << >>

IsSupportedEntry(e) == e.path \in SupportedRegularFiles

HasDate(e) == FormattedDateOf(e.path) # << >>

IsReadEvent(ev) == ev.op = "get_exif_date"

IsUpdateEvent(ev) == ev.op = "update_creation_date"

\* the calls of the reader and of the update invoker made so far, in order
ReaderCalls == SelectSeq(trace, IsReadEvent)

UpdateCalls == SelectSeq(trace, IsUpdateEvent)

ReadsOf(path) == { i \in DOMAIN ReaderCalls : ReaderCalls[i].path = path }

UpdatesOf(path) == { i \in DOMAIN UpdateCalls : UpdateCalls[i].path = path }

\* the supported files of the directory, in the order of the walk
SupportedFiles == SelectSeq(listing, IsSupportedEntry)

\* process_directory was called on an existing directory and has returned
WalkReturned == pc = "returned" /\ dir_kind = "dir"

(***************************************************************************)
(* Properties of process_directory and main (Spec)                         *)
(***************************************************************************)
\* C1: with dry_run set, update_creation_date is never invoked, whatever the
\* directory holds and whatever the reader returns.
C1_DryRunNeverUpdates == dry_run => UpdateCalls = << >>

\* C1 witness: a dry run that found a date for two files has returned
C1_Witness ==
    /\ dry_run
    /\ WalkReturned
    /\ tally.logged
    /\ tally.updated = 2
    /\ \E i \in DOMAIN ReaderCalls : ReaderCalls[i].ret = "datetime"

\* C4: update_creation_date returns True exactly when the SetFile process was
\* launched and ended with exit status 0; for every other exit status and when
\* the launch fails it returns False; no exception leaves it.
C4_UpdateReturnsExitZero ==
    /\ pc # "crashed"
    /\ \A i \in DOMAIN UpdateCalls :
          UpdateCalls[i].ret =
            IF UpdateCalls[i].launched /\ UpdateCalls[i].rc = 0 THEN "True" ELSE "False"

\* C4 witness: one invocation could not be launched, one ended with a
\* non-zero status, one ended with 0
C4_Witness ==
    /\ \E i \in DOMAIN UpdateCalls : ~UpdateCalls[i].launched /\ UpdateCalls[i].ret = "False"
    /\ \E i \in DOMAIN UpdateCalls :
          UpdateCalls[i].launched /\ UpdateCalls[i].rc = 1 /\ UpdateCalls[i].ret = "False"
    /\ \E i \in DOMAIN UpdateCalls :
          UpdateCalls[i].launched /\ UpdateCalls[i].rc = 0 /\ UpdateCalls[i].ret = "True"

\* C5: the reader is called only for paths of the directory that are regular
\* files with a supported extension, at most once each and exactly once each
\* when the walk has returned; a path that is not such a file gets neither a
\* reader call nor an update call.
C5_ReaderCalledOncePerSupportedFile ==
    /\ \A i \in DOMAIN ReaderCalls : \E k \in DOMAIN listing : listing[k].path = ReaderCalls[i].path
    /\ \A k \in DOMAIN listing :
          IF IsSupportedEntry(listing[k])
          THEN /\ Cardinality(ReadsOf(listing[k].path)) <= 1
               /\ WalkReturned => Cardinality(ReadsOf(listing[k].path)) = 1
          ELSE /\ ReadsOf(listing[k].path) = {}
               /\ UpdatesOf(listing[k].path) = {}

\* C5 witness: a directory with a .jpg, a .PNG and a .txt has been walked:
\* two reader calls
C5_Witness ==
    /\ WalkReturned
    /\ { listing[k].path : k \in DOMAIN listing } =
          { <<"/","p","/","a",".","j","p","g">>, <<"/","p","/","b",".","P","N","G">>,
            <<"/","p","/","c",".","t","x","t">> }
    /\ Len(ReaderCalls) = 2

\* every supported file of the directory holds a date and every SetFile
\* process so far was launched and ended with 0
AllDatedAllExitZero ==
    /\ \A k \in DOMAIN SupportedFiles : HasDate(SupportedFiles[k])
    /\ \A i \in DOMAIN UpdateCalls : UpdateCalls[i].launched /\ UpdateCalls[i].rc = 0

\* C6: a directory of n supported files, each with a date, dry_run off, every
\* SetFile ending with 0: when process_directory has returned it has run
\* exactly n commands, the k-th being [SetFile, -d, the k-th file's date as
\* MM/DD/YYYY HH:MM:SS, the k-th file's path], and (n >= 1) the tally logged
\* is updated = n, skipped = 0, errors = 0.
C6_AllUpdated ==
    (WalkReturned /\ ~dry_run /\ AllDatedAllExitZero) =>
      /\ Len(UpdateCalls) = Len(SupportedFiles)
      /\ \A k \in DOMAIN UpdateCalls :
            UpdateCalls[k].cmd =
              << <<"S","e","t","F","i","l","e">>, <<"-","d">>,
                 FormattedDateOf(SupportedFiles[k].path), SupportedFiles[k].path >>
      /\ Len(SupportedFiles) >= 1 =>
            tally = [logged |-> TRUE, updated |-> Len(SupportedFiles),
                     skipped |-> 0, errors |-> 0]

\* C6 witness: two dated files (and a .txt) walked for real, both updated
C6_Witness ==
    /\ WalkReturned /\ ~dry_run /\ AllDatedAllExitZero
    /\ Len(listing) = 3
    /\ Len(SupportedFiles) = 2
    /\ Len(UpdateCalls) = 2
    /\ tally = [logged |-> TRUE, updated |-> 2, skipped |-> 0, errors |-> 0]

\* C7: for a path that does not exist or is not a directory process_directory
\* logs an error and returns: nothing is enumerated, read or updated, the
\* loop is never entered and no tally is logged.
C7_InvalidPathRejected ==
    dir_kind # "dir" =>
      /\ pc \in {"main", "exited", "process_directory", "returned"}
      /\ image_files = << >>
      /\ trace = << >>
      /\ ~tally.logged
      /\ pc = "returned" =>
            /\ Len(log) = 1
            /\ log[1] = IF dir_kind = "missing" THEN "ERROR Directory does not exist"
                        ELSE "ERROR Path is not a directory"

\* C7 witness: process_directory has returned from a path that is a file
C7_Witness == dir_kind = "file" /\ pc = "returned" /\ Len(log) = 1

\* C8: main on another platform than macOS, or with SetFile absent, exits
\* with status 1 and never calls process_directory: nothing is read or
\* updated, with and without --dry-run.
C8_MainRefuses ==
    (platform # "darwin" \/ probe = "FileNotFoundError") =>
      /\ pc \in {"main", "exited"}
      /\ pc = "main" => platform # "darwin" /\ probe = "not run"
      /\ pc = "exited" => exit_status = 1
      /\ trace = << >>
      /\ image_files = << >>
      /\ ~tally.logged

\* C8 witness: main has exited because SetFile is absent, in a dry run on an
\* existing directory with a supported file
C8_Witness ==
    /\ pc = "exited"
    /\ probe = "FileNotFoundError"
    /\ exit_status = 1
    /\ dry_run
    /\ SupportedFiles # << >>

\* C10 as stated: every call of process_directory on an existing directory
\* ends by logging the final tally.
C10_TallyAlwaysLogged ==
    WalkReturned => tally.logged /\ log[Len(log)] = "INFO Processing complete"

\* C10 amended: a call on an existing directory that holds at least one
\* supported file ends by logging the tally; a call on one that holds none
\* ends by logging that no supported file was found, without a tally; the
\* tally is logged only when every supported file has been read and processed.
C10_TallyAfterFullWalk ==
    /\ (WalkReturned /\ SupportedFiles # << >>) =>
          tally.logged /\ log[Len(log)] = "INFO Processing complete"
    /\ (WalkReturned /\ SupportedFiles = << >>) =>
          ~tally.logged /\ log[Len(log)] = "INFO No supported image files found"
    /\ tally.logged =>
          /\ pc = "returned"
          /\ next_file = Len(SupportedFiles) + 1
          /\ \A k \in DOMAIN SupportedFiles :
                Cardinality(ReadsOf(SupportedFiles[k].path)) = 1

\* C10 witness: the tally is logged after a walk of three supported files
C10_Witness ==
    /\ WalkReturned
    /\ tally.logged
    /\ Len(SupportedFiles) = 3
    /\ Len(ReaderCalls) = 3

(***************************************************************************)
(* Properties of the format filter (SpecFilter)                            *)
(***************************************************************************)
\* the extensions of the supported list
ListedExtensions ==
    { <<"j","p","g">>, <<"j","p","e","g">>, <<"t","i","f","f">>, <<"t","i","f">>,
      <<"p","n","g">>, <<"h","e","i","c">>, <<"h","e","i","f">>, <<"c","r","2">>,
      <<"n","e","f">>, <<"a","r","w">>, <<"m","p","4">>, <<"m","o","v">>,
      <<"a","v","i">>, <<"m","k","v">> }

\* C9: is_supported_format answers true exactly when the path's extension is
\* one of the listed extensions written in some letter case (a name that is
\* only a dot and letters, like .jpg, has no extension), and the updater's and
\* the inspector's filters agree.
C9_FilterBySuffixAnyCase ==
    ft_result.called =>
      /\ ft_result.updater <=> (ft_in.stem # << >> /\ ft_in.base \in ListedExtensions)
      /\ ft_result.inspector = ft_result.updater

\* C9 witness: a mixed-case extension under a directory whose own name has an
\* extension is accepted by both filters
C9_Witness ==
    /\ ft_result.called
    /\ ft_result.updater
    /\ ft_result.inspector
    /\ ft_in.ext = <<"J","p","E","g">>
    /\ ft_in.dir = <<"d",".","j","p","g","/">>

(***************************************************************************)
(* Properties of the two directory walkers (SpecWalkers)                   *)
(***************************************************************************)
\* the paths of the catalog that lie in a subdirectory of the directory
BelowSubdirectory == { <<"/","p","/","s","/","e",".","m","o","v">> }

PathsOf(l) == { l[i].path : i \in DOMAIN l }

\* the paths below the directory, and its immediate children among them
Descendants == PathsOf(listing)

Children == Descendants \ BelowSubdirectory

InspectorEnumerated == in_pc \in {"loop", "returned"} /\ dir_kind = "dir"

UpdaterEnumerated == pc \in {"loop", "file", "returned"} /\ dir_kind = "dir"

\* inspect_directory: the candidates are the children with the flag off, the
\* descendants with the flag on, and the files inspected are the supported
\* regular files among them
InspectorFollowsFlag ==
    InspectorEnumerated =>
        /\ PathsOf(files) = (IF recursive THEN Descendants ELSE Children)
        /\ PathsOf(supported_files) = PathsOf(files) \cap SupportedRegularFiles

\* C11 as stated: both walkers enumerate per a recursive flag. process_directory
\* takes no such flag, so in each of its calls the flag is off, and
\* the statement asks for the immediate children only
C11_BothWalkersFollowFlag ==
    /\ InspectorFollowsFlag
    /\ UpdaterEnumerated => PathsOf(image_files) = Children \cap SupportedRegularFiles

\* C11 amended: inspect_directory enumerates per its recursive flag (off: the
\* immediate children, on: all descendants); process_directory has no such
\* flag and always takes all descendants
C11_InspectorFollowsFlagUpdaterRecursive ==
    /\ InspectorFollowsFlag
    /\ UpdaterEnumerated => PathsOf(image_files) = Descendants \cap SupportedRegularFiles

\* C11 witness: inspect_directory with the flag off has walked a directory
\* that holds a supported file at the top and one in a subdirectory, and
\* inspected the first only
C11_Witness ==
    /\ in_pc = "returned"
    /\ ~recursive
    /\ <<"/","p","/","a",".","j","p","g">> \in Descendants
    /\ <<"/","p","/","s","/","e",".","m","o","v">> \in Descendants
    /\ Len(printed) = 1
    /\ printed[1].path = <<"/","p","/","a",".","j","p","g">>

(***************************************************************************)
(* Properties of a walk run to its end (FairSpec)                          *)
(***************************************************************************)
\* the program has ended: process_directory returned or main called sys.exit
Terminated == pc \in {"returned", "exited"}

\* every supported file of the directory was handed to the reader, and, in a
\* real run, every one of them that holds a date to the update invoker
EveryFileProcessed ==
    \A i \in DOMAIN SupportedFiles :
        /\ ReadsOf(SupportedFiles[i].path) # {}
        /\ (HasDate(SupportedFiles[i]) /\ ~dry_run)
              => UpdatesOf(SupportedFiles[i].path) # {}

\* C12: no outcome for a file (none-found, decode error, SetFile ending
\* non-zero, SetFile impossible to launch) aborts the walk: no exception leaves
\* the loop, the walk terminates, and a walk of an existing directory that has
\* returned has processed every supported file
C12_FailureNeverAborts ==
    /\ [](pc # "crashed")
    /\ [](WalkReturned => EveryFileProcessed)
    /\ <>[]Terminated

\* C12 witness: a walk has returned after a decode error on its first file, a
\* SetFile that could not be launched on its second and a SetFile ending
\* non-zero on its third
C12_Witness ==
    /\ WalkReturned
    /\ Len(trace) = 5
    /\ trace[1].path = <<"/","p","/","f",".","j","p","e","g">> /\ trace[1].ret = "None"
    /\ IsUpdateEvent(trace[3]) /\ ~trace[3].launched /\ trace[3].ret = "False"
    /\ IsUpdateEvent(trace[5]) /\ trace[5].launched /\ trace[5].rc = 1
    /\ tally = [logged |-> TRUE, updated |-> 0, skipped |-> 1, errors |-> 2]

(***************************************************************************)
(* Order of the calls of a walk (Spec)                                     *)
(***************************************************************************)
\* C13: a walk makes at most one reader call and at most one invoker call per
\* file; every invoker call comes right after the reader call of the same
\* file, which returned a timestamp, so both calls of a file precede the
\* reader call of the next file and no invocation is repeated
C13_OneFileAtATimeNoRetry ==
    /\ \A p \in PathsOf(listing) :
         Cardinality(ReadsOf(p)) <= 1 /\ Cardinality(UpdatesOf(p)) <= 1
    /\ \A i \in DOMAIN trace :
         IsUpdateEvent(trace[i]) =>
            /\ i > 1
            /\ IsReadEvent(trace[i - 1])
            /\ trace[i - 1].path = trace[i].path
            /\ trace[i - 1].ret = "datetime"

\* C13 witness: a walk of two dated files has returned; the invocation for the
\* first failed and the next call made was the reader call of the second
C13_Witness ==
    /\ WalkReturned
    /\ Len(trace) = 4
    /\ IsUpdateEvent(trace[2]) /\ trace[2].ret = "False"
    /\ IsReadEvent(trace[3]) /\ trace[3].path # trace[2].path
    /\ IsUpdateEvent(trace[4]) /\ trace[4].ret = "True"

(***************************************************************************)
(* The video tags of the metadata reader (SpecReader)                      *)
(***************************************************************************)
\* the date-time of a video tag's value: the formats YYYY:MM:DD, YYYY-MM-DD,
\* YYYY/MM/DD (each with HH:MM:SS) in that order
ExpectedVideoDate(v) ==
    IF ExpectedDate(v, ":") # NoDate THEN ExpectedDate(v, ":")
    ELSE IF ExpectedDate(v, "-") # NoDate THEN ExpectedDate(v, "-")
    ELSE ExpectedDate(v, "/")

\* what the image tag list alone gives
ExpectedImageResult ==
    IF ImageTagsWithDate = {} THEN None
    ELSE Found(ExpectedDate(rd_lib.tags[ImageTagOrder[First(ImageTagsWithDate)]], ":"))

\* C14: for a file with a video extension that decodes, get_exif_date returns
\* the date-time of the earliest tag of the order QuickTime CreateDate,
\* QuickTime DateTimeOriginal, QuickTime DateTime, QuickTime CreationDate whose
\* value parses under one of the three formats, whatever the image tags hold;
\* when no video tag parses it returns what the image tag list gives; for a
\* file without a video extension the video tags have no influence
C14_VideoTagsBeforeImageTags ==
    (ReaderCalled /\ ~rd_lib.raises) =>
      /\ (rd_path \in VideoPaths /\ VideoTagsWithDate # {})
            => rd_result = Found(ExpectedVideoDate(
                               rd_lib.tags[VideoTagOrder[First(VideoTagsWithDate)]]))
      /\ (rd_path \in VideoPaths /\ VideoTagsWithDate = {})
            => rd_result = ExpectedImageResult
      /\ rd_path \notin VideoPaths => rd_result = ExpectedImageResult

\* C14 witness: a video file whose last video tag holds a dash-separated date
\* and whose first image tag holds another date: the reader returned the
\* video tag's date
C14_Witness ==
    /\ ReaderCalled
    /\ rd_path = <<"e",".","m","p","4">>
    /\ "QuickTime CreationDate" \in DOMAIN rd_lib.tags
    /\ rd_lib.tags["QuickTime CreationDate"] = DateDash
    /\ "EXIF DateTimeOriginal" \in DOMAIN rd_lib.tags
    /\ rd_lib.tags["EXIF DateTimeOriginal"] = DateA
    /\ rd_result = Found(DtDash)

(***************************************************************************)
(* Properties of inspect_file_metadata (SpecInspectFile)                   *)
(***************************************************************************)
\* the category of each tag name by the rule "date, else camera, else video,
\* else other", matching substrings in any letter case
ExpectedCategory ==
    ("EXIF DateTimeOriginal" :> "date")   @@  \* Date, Time, Original
    ("QuickTime CreateDate"  :> "date")   @@  \* Create, Date; also QuickTime
    ("EXIF ExposureTime"     :> "date")   @@  \* Time; also Exposure
    ("QuickTime Model"       :> "date")   @@  \* QuickTime holds "Time"; also Model
    ("EXIF ISOSpeedRatings"  :> "camera") @@  \* ISO
    ("EXIF Make"             :> "camera") @@  \* Make
    ("MakerNote FrameInfo"   :> "camera") @@  \* Make; also Frame
    ("EXIF VideoCodec"       :> "video")  @@  \* Video, Codec
    ("EXIF AudioBitrate"     :> "video")  @@  \* Audio, Bitrate
    ("EXIF ColorSpace"       :> "other")  @@
    ("Image Orientation"     :> "other")

InspectCalled == im_result # InspectPending

ListOf(m, category) ==
    IF category = "date" THEN m.date_tags
    ELSE IF category = "camera" THEN m.camera_tags
    ELSE IF category = "video" THEN m.video_tags
    ELSE m.other_tags

Categories == {"date", "camera", "video", "other"}

\* the positions of the tag in a list of (name, value) pairs
PositionsIn(list, tag) == { i \in DOMAIN list : list[i][1] = TagChars[tag] }

\* C15: every tag the library returned appears exactly once, in the list of
\* the first category whose rule matches its name (date, else camera, else
\* video, else other; letter case ignored) and in no other list, and the sizes
\* of the four lists add up to total_tags, the number of tags returned
C15_OneCategoryPerTag ==
    (InspectCalled /\ im_result.kind = "dict") =>
      /\ \A t \in DOMAIN im_lib.tags : \A c \in Categories :
            Cardinality(PositionsIn(ListOf(im_result, c), t))
               = (IF c = ExpectedCategory[t] THEN 1 ELSE 0)
      /\ Len(im_result.date_tags) + Len(im_result.camera_tags)
            + Len(im_result.video_tags) + Len(im_result.other_tags)
               = im_result.total_tags
      /\ im_result.total_tags = Cardinality(DOMAIN im_lib.tags)

\* C15 witness: a file with a tag matching date and camera words, one matching
\* date, camera and video words and one matching camera and video words was
\* inspected: two tags in the date list, one in the camera list
C15_Witness ==
    /\ InspectCalled
    /\ DOMAIN im_lib.tags = {"EXIF ExposureTime", "QuickTime Model", "MakerNote FrameInfo"}
    /\ Len(im_result.date_tags) = 2
    /\ Len(im_result.camera_tags) = 1
    /\ im_result.video_tags = << >>
    /\ im_result.total_tags = 3

(***************************************************************************)
(* The three counters of process_directory (Spec)                          *)
(***************************************************************************)
CounterSum == updated_count + skipped_count + error_count

\* the files whose loop iteration has ended: those handed to the reader,
\* less the one being processed
ProcessedSoFar == Len(ReaderCalls) - (IF pc = "file" THEN 1 ELSE 0)

DatedFiles == SelectSeq(SupportedFiles, HasDate)

\* a step leaves the three counters alone or adds one to exactly one of them
OneCounterStep ==
    \/ UNCHANGED <<updated_count, skipped_count, error_count>>
    \/ updated_count' = updated_count + 1 /\ UNCHANGED <<skipped_count, error_count>>
    \/ skipped_count' = skipped_count + 1 /\ UNCHANGED <<updated_count, error_count>>
    \/ error_count' = error_count + 1 /\ UNCHANGED <<updated_count, skipped_count>>

\* what the logged tally has to be
TallyComplete ==
    tally.logged =>
      /\ tally.updated + tally.skipped + tally.errors = Len(SupportedFiles)
      /\ dry_run => /\ tally.updated = Len(DatedFiles)
                    /\ tally.skipped = Len(SupportedFiles) - Len(DatedFiles)
                    /\ tally.errors = 0

\* C16: at every point of a walk updated + skipped + errored is the number of
\* files processed so far, every step adding one to at most one counter; the
\* logged tally sums to the number of supported files found, in dry-run and in
\* real mode, and in dry-run mode the dated files count as updated while
\* errored stays 0
C16_CountersSumToProcessed ==
    /\ [](CounterSum = ProcessedSoFar)
    /\ [][OneCounterStep]_vars
    /\ []TallyComplete

\* C16 witness: a dry run over two dated files and one without a date has
\* logged updated 2, skipped 1, errored 0
C16_Witness ==
    /\ dry_run
    /\ Len(SupportedFiles) = 3
    /\ tally = [logged |-> TRUE, updated |-> 2, skipped |-> 1, errors |-> 0]

====
